---------------------------- MODULE Spec2Model ----------------------------
(***************************************************************************)
(* A model of lib/ResourceProvider.js: the rule store of a lvl2app, its    *)
(* registration (_useRules/_useRule), exact lookup (getRule) and path      *)
(* resolution (getRulesFor).                                               *)
(*                                                                         *)
(* JavaScript strings are sequences of one-character strings, so that      *)
(* String.split, Array.join, path.normalize and glob matching are          *)
(* computed, character by character, as the code computes them.            *)
(* JavaScript values are records [t, v, r]: t is the typeof-like tag, v    *)
(* the payload as a sequence of strings, r a heap reference (objects).     *)
(***************************************************************************)
EXTENDS Integers, Sequences, FiniteSets, TLC

\* ------------------------------------------------------------ strings

\* The separator of a multi-glob key, " | " (ResourceProvider.js:236,247).
SEP == <<" ", "|", " ">>

\* String.prototype.indexOf(SEP): the least index at which SEP occurs in s,
\* 0 when it does not occur.
SepIndex(s) ==
    LET hits == {i \in 1..Len(s) : i + 2 <= Len(s) /\ SubSeq(s, i, i + 2) = SEP}
    IN  IF hits = {} THEN 0 ELSE CHOOSE i \in hits : \A j \in hits : i <= j

\* string.split(" | "): the pieces between the leftmost non-overlapping
\* occurrences of the separator; the empty string splits into one empty piece.
RECURSIVE SplitSep(_)
SplitSep(s) ==
    LET i == SepIndex(s)
    IN  IF i = 0 THEN <<s>>
        ELSE <<SubSeq(s, 1, i - 1)>> \o SplitSep(SubSeq(s, i + 3, Len(s)))

\* !!pattern: a string is truthy when it is not empty.
NonEmptyString(pattern) == pattern # <<>>

\* parseGlobMultiPattern(string): the non-empty pieces, in order.
parseGlobMultiPattern(string) == SelectSeq(SplitSep(string), NonEmptyString)

\* Array.prototype.join(sep) on an array of strings.
RECURSIVE Join(_, _)
Join(parts, sep) ==
    IF parts = <<>> THEN <<>>
    ELSE IF Len(parts) = 1 THEN parts[1]
    ELSE parts[1] \o sep \o Join(Tail(parts), sep)

\* A variant of stringifyGlobMultiPattern that joins with "|", without the spaces.
stringifyWithBarePipe(globs) == Join(globs, <<"|">>)

\* stringifyGlobMultiPattern(globs) = globs.join(" | ").
stringifyGlobMultiPattern(globs) == Join(globs, SEP)

\* The canonical key of a key: stringify(parse(key)).
Canon(globs) == stringifyGlobMultiPattern(parseGlobMultiPattern(globs))

\* ------------------------------------------------------ path.normalize

\* string.split("/"): the pieces between slashes, empty pieces kept.
RECURSIVE SplitSlash(_)
SplitSlash(s) ==
    LET hits == {i \in 1..Len(s) : s[i] = "/"}
    IN  IF hits = {} THEN <<s>>
        ELSE LET i == CHOOSE i \in hits : \A j \in hits : i <= j
             IN  <<SubSeq(s, 1, i - 1)>> \o SplitSlash(SubSeq(s, i + 1, Len(s)))

DOT == <<".">>
DOTDOT == <<".", ".">>

\* Node's normalizeArray: drops "." segments and resolves ".." against the
\* segment before it; above the root ".." is kept only for a relative path.
RECURSIVE NormalizeArray(_, _, _)
NormalizeArray(parts, acc, allowAboveRoot) ==
    IF parts = <<>> THEN acc
    ELSE LET p == Head(parts)
             rest == Tail(parts)
         IN  IF p = DOT THEN NormalizeArray(rest, acc, allowAboveRoot)
             ELSE IF p = DOTDOT
             THEN IF acc # <<>> /\ acc[Len(acc)] # DOTDOT
                  THEN NormalizeArray(rest, SubSeq(acc, 1, Len(acc) - 1), allowAboveRoot)
                  ELSE IF allowAboveRoot
                  THEN NormalizeArray(rest, Append(acc, p), allowAboveRoot)
                  ELSE NormalizeArray(rest, acc, allowAboveRoot)
             ELSE NormalizeArray(rest, Append(acc, p), allowAboveRoot)

\* path.normalize of a string (POSIX): "." and ".." resolved, runs of slashes
\* collapsed, a leading and a trailing slash kept, "" becomes ".".
PathNormalize(path) ==
    IF path = <<>> THEN DOT
    ELSE LET isAbsolute == path[1] = "/"
             trailingSlash == path[Len(path)] = "/"
             segs == SelectSeq(SplitSlash(path), NonEmptyString)
             body == Join(NormalizeArray(segs, <<>>, ~isAbsolute), <<"/">>)
             body1 == IF body = <<>> /\ ~isAbsolute THEN DOT ELSE body
             body2 == IF body1 # <<>> /\ trailingSlash THEN body1 \o <<"/">> ELSE body1
         IN  IF isAbsolute THEN <<"/">> \o body2 ELSE body2

\* ------------------------------------------------- minimatch, multimatch

\* string.split(/\/+/): the pieces between runs of slashes.
RECURSIVE SplitSlashes(_)
SplitSlashes(s) ==
    LET hits == {i \in 1..Len(s) : s[i] = "/"}
    IN  IF hits = {} THEN <<s>>
        ELSE LET i == CHOOSE i \in hits : \A j \in hits : i <= j
                 after == {j \in i..Len(s) : s[j] # "/"}
                 nxt == IF after = {} THEN Len(s) + 1
                        ELSE CHOOSE j \in after : \A k \in after : j <= k
             IN  <<SubSeq(s, 1, i - 1)>> \o SplitSlashes(SubSeq(s, nxt, Len(s)))

\* A path segment against a pattern segment in which "*" stands for any run
\* of characters and "?" for one character.
RECURSIVE Wild(_, _)
Wild(f, p) ==
    IF p = <<>> THEN f = <<>>
    ELSE IF Head(p) = "*"
    THEN Wild(f, Tail(p)) \/ (f # <<>> /\ Wild(Tail(f), p))
    ELSE IF f = <<>> THEN FALSE
    ELSE (Head(p) = "?" \/ Head(p) = Head(f)) /\ Wild(Tail(f), Tail(p))

HasMagic(p) == \E i \in 1..Len(p) : p[i] \in {"*", "?"}

\* One segment of minimatch's matchOne: a literal pattern segment is compared
\* as a string; a segment with magic is a regular expression that, when it
\* starts with magic, wants a non-empty segment that does not start with ".".
SegMatch(f, p) ==
    IF ~HasMagic(p) THEN f = p
    ELSE /\ (Head(p) \in {"*", "?"} => f # <<>> /\ Head(f) # ".")
         /\ Wild(f, p)

\* minimatch's matchOne(file, pattern): segment by segment; a pattern that
\* ends first matches only when what is left of the file is one empty
\* segment (a trailing slash); a file that ends first does not match.
RECURSIVE MatchOne(_, _)
MatchOne(file, pattern) ==
    IF file # <<>> /\ pattern # <<>>
    THEN SegMatch(Head(file), Head(pattern)) /\ MatchOne(Tail(file), Tail(pattern))
    ELSE IF file = <<>> /\ pattern = <<>> THEN TRUE
    ELSE IF file = <<>> THEN FALSE
    ELSE Len(file) = 1 /\ file[1] = <<>>

\* minimatch(f, pattern) for a pattern without a leading "!".
Minimatch(f, pattern) ==
    IF pattern = <<>> THEN f = <<>>
    ELSE MatchOne(SplitSlashes(f), SplitSlashes(pattern))

\* multimatch with the negated patterns ignored (a slip the library avoids).
RECURSIVE MultimatchNoNegation(_, _)
MultimatchNoNegation(f, patterns) ==
    IF patterns = <<>> THEN FALSE
    ELSE LET pattern == Head(patterns)
         IN  \/ (pattern # <<>> /\ Head(pattern) # "!" /\ Minimatch(f, pattern))
             \/ MultimatchNoNegation(f, Tail(patterns))

\* multimatch(f, patterns).length > 0: the patterns are folded left to
\* right; a pattern takes f into the result when it matches, a pattern with
\* a leading "!" takes f out of the result when its remainder matches.
RECURSIVE MultimatchFrom(_, _, _)
MultimatchFrom(f, patterns, acc) ==
    IF patterns = <<>> THEN acc
    ELSE LET pattern == Head(patterns)
         IN  IF pattern # <<>> /\ Head(pattern) = "!"
             THEN MultimatchFrom(f, Tail(patterns), acc /\ ~Minimatch(f, Tail(pattern)))
             ELSE MultimatchFrom(f, Tail(patterns), acc \/ Minimatch(f, pattern))

Multimatch(f, patterns) == MultimatchFrom(f, patterns, FALSE)

\* ------------------------------------------------------------- values

Val(t, v, r) == [t |-> t, v |-> v, r |-> r]
\* The value undefined.
Undefined == Val("undefined", <<>>, 0)
\* What stands for a property an object does not have.
Absent == Val("absent", <<>>, 0)
Null == Val("null", <<>>, 0)
Str(s) == Val("string", s, 0)
Bool(b) == Val("boolean", IF b THEN <<"true">> ELSE <<"false">>, 0)
Fn(name) == Val("function", <<name>>, 0)
Num(n) == Val("number", <<n>>, 0)
\* A reference to the plain object at heap[r].
Obj(r) == Val("object", <<>>, r)

\* lodash's type predicates; reading a property that is absent gives undefined.
isString(x) == x.t = "string"
isFunction(x) == x.t = "function"
isBoolean(x) == x.t = "boolean"
isUndefined(x) == x.t \in {"undefined", "absent"}
isPlainObject(x) == x.t = "object"
\* !x for the values of the model.
Falsy(x) ==
    \/ x.t \in {"undefined", "absent", "null"}
    \/ x = Bool(FALSE)
    \/ x = Str(<<>>)
    \/ x = Num("0")

\* A rule object {action, fallbackIndex, $p}: hasP says whether it has a $p.
RuleObject(action, fallbackIndex) ==
    [action |-> action, fallbackIndex |-> fallbackIndex, hasP |-> FALSE, p |-> <<>>]

\* ----------------------------------------------------- the model's inputs

S_a == <<"a">>
S_b == <<"b">>
S_c == <<"c">>
S_aSlash == <<"a", "/">>
S_bSlash == <<"b", "/">>
S_dotA == <<".", "/", "a", "/", "/">>
S_A_B == <<"a", " ", "|", " ", "b">>
S_sepA == <<" ", "|", " ", "a">>
S_A_notA == <<"a", " ", "|", " ", "!", "a">>
S_toString == <<"t", "o", "S", "t", "r", "i", "n", "g">>

\* The caller's own plain objects, at heap[1..3] from the start:
\* {fallbackIndex: true}, {action: "", fallbackIndex: false} and {action: 42}.
CallerObjects ==
    << RuleObject(Absent, Bool(TRUE)),
       RuleObject(Str(<<>>), Bool(FALSE)),
       RuleObject(Num("42"), Absent) >>

\* The providers of the model.
Insts == {1, 2}

\* How many _useRule calls the callers make after the constructions.
MaxRegs == 2

\* --------------------------------------------------------------- state

VARIABLES
    heap,                \* the plain objects, by reference
    created,             \* per provider: "none", "ok", or "TypeError" (new threw)
    appId,               \* this.appId
    rules,               \* this._rules: its own properties, <<key, ref>>, in enumeration order
    dynamicHandlerCount, \* this.dynamicHandlerCount (the prototype's 0 until written)
    staticRerouteCount,  \* this.staticRerouteCount
    staticLockCount,     \* this.staticLockCount
    regOrder,            \* history: <<key, action>> of each key's latest registration, oldest first
    nRegs,               \* history: the callers' _useRule calls so far
    ret                  \* the last call: what was called, with what, and its outcome

vars == <<heap, created, appId, rules, dynamicHandlerCount, staticRerouteCount,
          staticLockCount, regOrder, nRegs, ret>>

\* --------------------------------------------------- the _rules object

OwnKeys(rs) == {rs[n][1] : n \in 1..Len(rs)}
HasOwn(rs, key) == key \in OwnKeys(rs)
IndexOfKey(rs, key) == CHOOSE n \in 1..Len(rs) : rs[n][1] = key
RefOf(rs, key) == rs[IndexOfKey(rs, key)][2]

Digits == <<"0", "1", "2", "3", "4", "5", "6", "7", "8", "9">>
DigitValue(c) == (CHOOSE n \in 1..10 : Digits[n] = c) - 1
\* A property name that is an array index ("0", "7", "12"): an object
\* enumerates these first, in ascending numeric order.
IsArrayIndex(key) ==
    /\ key # <<>>
    /\ \A n \in 1..Len(key) : \E d \in 1..10 : Digits[d] = key[n]
    /\ (Len(key) > 1 => key[1] # "0")
RECURSIVE IndexValue(_)
IndexValue(key) ==
    IF key = <<>> THEN 0
    ELSE 10 * IndexValue(SubSeq(key, 1, Len(key) - 1)) + DigitValue(key[Len(key)])

\* Where a new own property goes in the enumeration order: an array index
\* before the first larger index and before every other name, any other
\* name last.
InsertAt(rs, key) ==
    IF IsArrayIndex(key)
    THEN LET later == {n \in 1..Len(rs) :
                          \/ ~IsArrayIndex(rs[n][1])
                          \/ IndexValue(rs[n][1]) > IndexValue(key)}
         IN  IF later = {} THEN Len(rs) + 1
             ELSE CHOOSE n \in later : \A m \in later : n <= m
    ELSE Len(rs) + 1

\* A variant of the assignment below that drops the other properties.
PutOwnAlone(rs, key, ref) == << <<key, ref>> >>

\* A variant of the assignment below that keeps the property already there.
PutOwnKeepingFirst(rs, key, ref) ==
    IF HasOwn(rs, key) THEN rs ELSE Append(rs, <<key, ref>>)

\* this._rules[key] = ref: an existing own property keeps its place and
\* gets the new value; a new one is added.
PutOwn(rs, key, ref) ==
    IF HasOwn(rs, key)
    THEN [rs EXCEPT ![IndexOfKey(rs, key)] = <<key, ref>>]
    ELSE LET at == InsertAt(rs, key)
         IN  SubSeq(rs, 1, at - 1) \o << <<key, ref>> >> \o SubSeq(rs, at, Len(rs))

\* The members every object inherits from Object.prototype (those the
\* model's inputs can name).
ObjectPrototypeMembers == {S_toString}

\* this._rules[key]: the own property, else what the prototype chain of an
\* object literal ({}) gives, else undefined.
GetProperty(rs, key) ==
    IF HasOwn(rs, key) THEN Obj(RefOf(rs, key))
    ELSE IF key \in ObjectPrototypeMembers THEN Fn("Object.prototype.toString")
    ELSE Undefined

\* ------------------------------------------------------- registration

\* One provider's fields together with the heap: what _useRule works on.
World(i) ==
    [heap |-> heap, rules |-> rules[i],
     dynamicHandlerCount |-> dynamicHandlerCount[i],
     staticRerouteCount |-> staticRerouteCount[i],
     staticLockCount |-> staticLockCount[i],
     regOrder |-> regOrder[i]]

Returned(w, val) == [w |-> w, out |-> "return", val |-> val]
Threw(w) == [w |-> w, out |-> "TypeError", val |-> Undefined]

\* A variant of the counting below that counts true as a lock too.
CountedCountingUnlock(w, action) ==
    IF isFunction(action)
    THEN [w EXCEPT !.dynamicHandlerCount = @ + 1]
    ELSE IF isString(action)
    THEN [w EXCEPT !.staticRerouteCount = @ + 1]
    ELSE IF isBoolean(action)
    THEN [w EXCEPT !.staticLockCount = @ + 1]
    ELSE w

\* ResourceProvider.js:155-166: the counter of the action's kind goes up.
Counted(w, action) ==
    IF isFunction(action)
    THEN [w EXCEPT !.dynamicHandlerCount = @ + 1]
    ELSE IF isString(action)
    THEN [w EXCEPT !.staticRerouteCount = @ + 1]
    ELSE IF action = Bool(FALSE)
    THEN [w EXCEPT !.staticLockCount = @ + 1]
    ELSE w

\* Whether _useRule takes the rule: a function, a string, a boolean, or a
\* plain object whose action is undefined, a function, a string or a boolean.
Wrappable(rule) == isFunction(rule) \/ isString(rule) \/ isBoolean(rule)
\* A variant of the test below that takes a plain object whatever its action.
SupportedObjectAnyAction(h, rule) == isPlainObject(rule)

SupportedObject(h, rule) ==
    /\ isPlainObject(rule)
    /\ LET action == h[rule.r].action
       IN  isUndefined(action) \/ isFunction(action) \/ isString(action) \/ isBoolean(action)

\* The history of registrations, <<key, action registered>>: the key's entry
\* moves to the end.
Registered(order, key, action) ==
    Append(SelectSeq(order, LAMBDA e : e[1] # key), <<key, action>>)

\* _useRule(globs, rule) on w.
UseRule(w, globs, rule) ==
    IF ~isString(globs) THEN Threw(w)
    ELSE IF ~Wrappable(rule) /\ ~SupportedObject(w.heap, rule) THEN Threw(w)
    ELSE LET heap1 == IF Wrappable(rule)
                      THEN Append(w.heap, RuleObject(rule, Absent))
                      ELSE w.heap
             ref == IF Wrappable(rule) THEN Len(heap1) ELSE rule.r
             patterns == parseGlobMultiPattern(globs.v)
             heap2 == [heap1 EXCEPT ![ref].hasP = TRUE, ![ref].p = patterns]
             key == stringifyGlobMultiPattern(patterns)
             w1 == Counted([w EXCEPT !.heap = heap2], heap2[ref].action)
             w2 == [w1 EXCEPT !.rules = PutOwn(w1.rules, key, ref),
                              !.regOrder = Registered(w1.regOrder, key, heap2[ref].action)]
         IN  Returned(w2, Str(key))

\* A variant of the loop below that stops after the first entry.
UseEntriesFirstOnly(w, entries) ==
    IF entries = <<>> THEN Returned(w, Undefined)
    ELSE UseRule(w, entries[1][1], entries[1][2])

\* _.forOwn(ruleset, ...) calling _useRule on each entry in turn; the first
\* throw ends the loop.
RECURSIVE UseEntries(_, _)
UseEntries(w, entries) ==
    IF entries = <<>> THEN Returned(w, Undefined)
    ELSE LET r == UseRule(w, entries[1][1], entries[1][2])
         IN  IF r.out = "TypeError" THEN r ELSE UseEntries(r.w, Tail(entries))

\* A variant of _useRules that takes a ruleset that is no plain object for
\* an empty one.
UseRulesUnchecked(w, ruleset) ==
    IF Falsy(ruleset.val) \/ ~isPlainObject(ruleset.val) THEN Returned(w, Undefined)
    ELSE UseEntries(w, ruleset.entries)

\* _useRules(ruleset): nothing for a falsy ruleset, a TypeError for one that
\* is no plain object. A ruleset is [val, entries]: the value, and for a
\* plain object its <<key, rule>> properties in enumeration order.
UseRules(w, ruleset) ==
    IF Falsy(ruleset.val) THEN Returned(w, Undefined)
    ELSE IF ~isPlainObject(ruleset.val) THEN Threw(w)
    ELSE UseEntries(w, ruleset.entries)

\* What new ResourceProvider starts from: this._rules = {} and the
\* prototype's counters.
FreshWorld(h) ==
    [heap |-> h, rules |-> <<>>, dynamicHandlerCount |-> 0, staticRerouteCount |-> 0,
     staticLockCount |-> 0, regOrder |-> <<>>]

\* The ruleset no config, or a config without rules, leaves: the default {}.
DefaultRuleset == [val |-> Obj(0), entries |-> <<>>]

\* _.extend({map: {}, rules: {}}, config).rules: config is [present, hasRules, rules].
ConfigRules(config) ==
    IF config.present /\ config.hasRules THEN config.rules ELSE DefaultRuleset

\* new ResourceProvider(appId, config).
Construct(h, id, config) ==
    IF ~isString(id) THEN Threw(FreshWorld(h))
    ELSE UseRules(FreshWorld(h), ConfigRules(config))

\* ---------------------------------------------------------- resolution

\* _.extend(dst, src) on rule objects: every property src has is assigned.
Extend(dst, src) ==
    [action |-> IF src.action.t # "absent" THEN src.action ELSE dst.action,
     fallbackIndex |-> IF src.fallbackIndex.t # "absent" THEN src.fallbackIndex
                       ELSE dst.fallbackIndex,
     hasP |-> src.hasP \/ dst.hasP,
     p |-> IF src.hasP THEN src.p ELSE dst.p]

\* A variant of the scan below that merges every stored rule and keeps the
\* match for the applied keys only.
RECURSIVE ScanMergingAll(_, _, _, _, _)
ScanMergingAll(h, rs, path, n, acc) ==
    IF n > Len(rs) THEN acc
    ELSE LET rule == h[rs[n][2]]
         IN  ScanMergingAll(h, rs, path, n + 1,
                 [appliedRules |-> IF Multimatch(path, rule.p)
                                   THEN Append(acc.appliedRules, rs[n][1])
                                   ELSE acc.appliedRules,
                  combinedRules |-> Extend(acc.combinedRules, rule)])

\* The scan of getRulesFor: _.forOwn over this._rules from its n-th own
\* property on, with the applied keys and the combined rule so far.
RECURSIVE Scan(_, _, _, _, _)
Scan(h, rs, path, n, acc) ==
    IF n > Len(rs) THEN acc
    ELSE LET rule == h[rs[n][2]]
         IN  IF Multimatch(path, rule.p)
             THEN Scan(h, rs, path, n + 1,
                       [appliedRules |-> Append(acc.appliedRules, rs[n][1]),
                        combinedRules |-> Extend(acc.combinedRules, rule)])
             ELSE Scan(h, rs, path, n + 1, acc)

\* What getRulesFor returns: the combined rule without its $p, with $ps and $target.
Combined(c, appliedRules, target) ==
    [action |-> c.action, fallbackIndex |-> c.fallbackIndex, hasP |-> FALSE, p |-> <<>>,
     ps |-> appliedRules, target |-> target]

NoResult == Combined(RuleObject(Absent, Absent), <<>>, <<>>)

\* _normalizeResourcePath(resourcePath) for a string.
NormalizeResourcePath(resourcePath) == PathNormalize(resourcePath)

\* getRulesFor(resourcePath) for a string, on the rules rs and the heap h.
GetRulesFor(h, rs, resourcePath) ==
    LET path == NormalizeResourcePath(resourcePath)
        scanned == Scan(h, rs, path, 1,
                        [appliedRules |-> <<>>, combinedRules |-> RuleObject(Absent, Absent)])
    IN  Combined(scanned.combinedRules, scanned.appliedRules, path)

\* --------------------------------------------------------------- calls

NoConfig == [present |-> FALSE, hasRules |-> FALSE, rules |-> DefaultRuleset]

Call(op, i, a1, a2, config, out, val, res) ==
    [op |-> op, inst |-> i, a1 |-> a1, a2 |-> a2, config |-> config,
     out |-> out, val |-> val, res |-> res]

Init ==
    /\ heap = CallerObjects
    /\ created = [i \in Insts |-> "none"]
    /\ appId = [i \in Insts |-> Undefined]
    /\ rules = [i \in Insts |-> <<>>]
    /\ dynamicHandlerCount = [i \in Insts |-> 0]
    /\ staticRerouteCount = [i \in Insts |-> 0]
    /\ staticLockCount = [i \in Insts |-> 0]
    /\ regOrder = [i \in Insts |-> <<>>]
    /\ nRegs = 0
    /\ ret = Call("none", 0, Undefined, Undefined, NoConfig, "return", Undefined, NoResult)

\* A variant of the write below in which the providers share their fields.
StoreShared(f, i, x) == [j \in Insts |-> x]

\* A write of one provider's own field.
Store(f, i, x) == [f EXCEPT ![i] = x]

\* The provider i takes the fields of the world w.
Adopt(i, w) ==
    /\ heap' = w.heap
    /\ rules' = Store(rules, i, w.rules)
    /\ dynamicHandlerCount' = Store(dynamicHandlerCount, i, w.dynamicHandlerCount)
    /\ staticRerouteCount' = Store(staticRerouteCount, i, w.staticRerouteCount)
    /\ staticLockCount' = Store(staticLockCount, i, w.staticLockCount)
    /\ regOrder' = Store(regOrder, i, w.regOrder)

\* new ResourceProvider(id, config) for the provider i. A constructor that
\* throws leaves no provider, but what it did to the caller's objects stays.
New(i, id, config) ==
    /\ created[i] = "none"
    /\ LET r == Construct(heap, id, config)
       IN  /\ IF r.out = "return"
              THEN /\ Adopt(i, r.w)
                   /\ created' = [created EXCEPT ![i] = "ok"]
                   /\ appId' = [appId EXCEPT ![i] = id]
              ELSE /\ heap' = r.w.heap
                   /\ created' = [created EXCEPT ![i] = "TypeError"]
                   /\ UNCHANGED <<appId, rules, dynamicHandlerCount, staticRerouteCount,
                                  staticLockCount, regOrder>>
           /\ ret' = Call("new", i, id, Undefined, config, r.out, Undefined, NoResult)
    /\ UNCHANGED nRegs

\* provider._useRule(globs, rule), called after the construction.
RegisterRule(i, globs, rule) ==
    /\ created[i] = "ok"
    /\ nRegs < MaxRegs
    /\ LET r == UseRule(World(i), globs, rule)
       IN  /\ Adopt(i, r.w)
           /\ nRegs' = IF r.out = "return" THEN nRegs + 1 ELSE nRegs
           /\ ret' = Call("_useRule", i, globs, rule, NoConfig, r.out, r.val, NoResult)
    /\ UNCHANGED <<created, appId>>

\* provider.getRule(globs).
GetRule(i, globs) ==
    /\ created[i] = "ok"
    /\ ret' = IF ~isString(globs)
              THEN Call("getRule", i, globs, Undefined, NoConfig, "TypeError", Undefined, NoResult)
              ELSE Call("getRule", i, globs, Undefined, NoConfig, "return",
                        GetProperty(rules[i], Canon(globs.v)), NoResult)
    /\ UNCHANGED <<heap, created, appId, rules, dynamicHandlerCount, staticRerouteCount,
                   staticLockCount, regOrder, nRegs>>

\* A variant of getRulesFor that merges into the first stored rule that
\* applies instead of a fresh object, so that the delete of $p hits that rule.
GetRulesForCallMergingInPlace(i, resourcePath) ==
    /\ created[i] = "ok"
    /\ ret' = IF ~isString(resourcePath)
              THEN Call("getRulesFor", i, resourcePath, Undefined, NoConfig, "TypeError",
                        Undefined, NoResult)
              ELSE Call("getRulesFor", i, resourcePath, Undefined, NoConfig, "return",
                        Undefined, GetRulesFor(heap, rules[i], resourcePath.v))
    /\ heap' = IF ~isString(resourcePath) THEN heap
               ELSE LET hit == {n \in 1..Len(rules[i]) :
                                   Multimatch(NormalizeResourcePath(resourcePath.v),
                                              heap[rules[i][n][2]].p)}
                    IN  IF hit = {} THEN heap
                        ELSE LET first == CHOOSE n \in hit : \A m \in hit : n <= m
                             IN  [heap EXCEPT ![rules[i][first][2]].hasP = FALSE,
                                              ![rules[i][first][2]].p = <<>>]
    /\ UNCHANGED <<created, appId, rules, dynamicHandlerCount, staticRerouteCount,
                   staticLockCount, regOrder, nRegs>>

\* provider.getRulesFor(resourcePath).
GetRulesForCall(i, resourcePath) ==
    /\ created[i] = "ok"
    /\ ret' = IF ~isString(resourcePath)
              THEN Call("getRulesFor", i, resourcePath, Undefined, NoConfig, "TypeError",
                        Undefined, NoResult)
              ELSE Call("getRulesFor", i, resourcePath, Undefined, NoConfig, "return",
                        Undefined, GetRulesFor(heap, rules[i], resourcePath.v))
    /\ UNCHANGED <<heap, created, appId, rules, dynamicHandlerCount, staticRerouteCount,
                   staticLockCount, regOrder, nRegs>>

\* provider.handleResourcePath(resourcePath): a TypeError for what is no
\* string, null for a string.
HandleResourcePath(i, resourcePath) ==
    /\ created[i] = "ok"
    /\ ret' = IF ~isString(resourcePath)
              THEN Call("handleResourcePath", i, resourcePath, Undefined, NoConfig, "TypeError",
                        Undefined, NoResult)
              ELSE Call("handleResourcePath", i, resourcePath, Undefined, NoConfig, "return",
                        Null, NoResult)
    /\ UNCHANGED <<heap, created, appId, rules, dynamicHandlerCount, staticRerouteCount,
                   staticLockCount, regOrder, nRegs>>

\* ------------------------------------------------------ the inputs drawn

AppIds == {Str(<<"a", "p", "p">>), Num("42"), Undefined}

Ruleset(entries) == [val |-> Obj(0), entries |-> entries]
WithRules(ruleset) == [present |-> TRUE, hasRules |-> TRUE, rules |-> ruleset]

\* {foo: 'bar'}
CfgFooBar == [present |-> TRUE, hasRules |-> FALSE, rules |-> DefaultRuleset]
\* {rules: {"a | b": false, "a": true}}
CfgLockUnlock == WithRules(Ruleset(<< <<Str(S_A_B), Bool(FALSE)>>, <<Str(S_a), Bool(TRUE)>> >>))
\* {rules: 42}
CfgRulesNumber == WithRules([val |-> Num("42"), entries |-> <<>>])
\* {rules: null}
CfgRulesNull == WithRules([val |-> Null, entries |-> <<>>])
\* {rules: {"a": <the caller's first object>, "b": 42}}
CfgBadRule == WithRules(Ruleset(<< <<Str(S_a), Obj(1)>>, <<Str(S_b), Num("42")>> >>))

Configs == {NoConfig, CfgFooBar, CfgLockUnlock, CfgRulesNumber, CfgRulesNull, CfgBadRule}

RegKeys == {Str(S_a), Str(S_sepA), Str(S_A_B), Str(S_A_notA), Num("42")}
RegRules == {Fn("f1"), Str(S_bSlash), Bool(TRUE), Bool(FALSE), Obj(1), Obj(2), Obj(3), Num("42")}
LookupKeys == RegKeys \cup {Str(S_b), Str(S_toString)}
Paths == {Str(S_a), Str(S_aSlash), Str(S_bSlash), Str(S_dotA), Str(S_c), Num("42")}
HandledPaths == {Str(S_aSlash), Num("42")}

\* One provider, its registrations and its queries.
Next ==
    \/ \E id \in AppIds, config \in Configs : New(1, id, config)
    \/ \E globs \in RegKeys, rule \in RegRules : RegisterRule(1, globs, rule)
    \/ \E globs \in LookupKeys : GetRule(1, globs)
    \/ \E resourcePath \in Paths : GetRulesForCall(1, resourcePath)
    \/ \E resourcePath \in HandledPaths : HandleResourcePath(1, resourcePath)

Spec == Init /\ [][Next]_vars

\* Two providers of one process, constructed and registered with in any order.
MultiConfigs == {NoConfig, CfgLockUnlock}
MultiKeys == {Str(S_a), Str(S_A_B)}
MultiRules == {Fn("f1"), Bool(FALSE), Obj(1)}

NextMulti ==
    \/ \E i \in Insts, config \in MultiConfigs : New(i, Str(<<"a", "p", "p">>), config)
    \/ \E i \in Insts, globs \in MultiKeys, rule \in MultiRules : RegisterRule(i, globs, rule)
    \/ \E i \in Insts, globs \in MultiKeys : GetRule(i, globs)

SpecMulti == Init /\ [][NextMulti]_vars

\* One provider and the keys at the edge: the empty key, a key that is only
\* a separator, a key that is an array index.
S_empty == <<>>
S_sep == <<" ", "|", " ">>
S_1 == <<"1">>
EdgeKeys == {Str(S_empty), Str(S_sep), Str(S_1), Str(S_b)}
EdgeRules == {Bool(FALSE), Fn("f1"), Obj(1)}
EdgePaths == {Str(S_1), Str(S_b), Str(S_empty)}

NextEdge ==
    \/ New(1, Str(<<"a", "p", "p">>), NoConfig)
    \/ \E globs \in EdgeKeys, rule \in EdgeRules : RegisterRule(1, globs, rule)
    \/ \E globs \in EdgeKeys : GetRule(1, globs)
    \/ \E resourcePath \in EdgePaths : GetRulesForCall(1, resourcePath)

SpecEdge == Init /\ [][NextEdge]_vars

\* The canonicalization of a key on its own, as getRule and _useRule do it
\* before they touch the rules: every key of up to MaxKeyLen characters
\* over "a", " " and "|", and the canonical form canonicalized again.
MaxKeyLen == 6
KeyChars == {"a", " ", "|"}
ShortKeys == UNION {[1..n -> KeyChars] : n \in 0..MaxKeyLen}

\* The state in which a caller holds the key globs, before any provider exists.
InitCanon ==
    /\ heap = CallerObjects
    /\ created = [i \in Insts |-> "none"]
    /\ appId = [i \in Insts |-> Undefined]
    /\ rules = [i \in Insts |-> <<>>]
    /\ dynamicHandlerCount = [i \in Insts |-> 0]
    /\ staticRerouteCount = [i \in Insts |-> 0]
    /\ staticLockCount = [i \in Insts |-> 0]
    /\ regOrder = [i \in Insts |-> <<>>]
    /\ nRegs = 0
    /\ \E globs \in ShortKeys :
           ret = Call("globs", 0, Str(globs), Undefined, NoConfig, "return", Undefined, NoResult)

\* stringifyGlobMultiPattern(parseGlobMultiPattern(globs)) on the key held.
Canonicalize ==
    /\ ret.op = "globs"
    /\ ret' = Call("canonicalize", 0, ret.a1, Undefined, NoConfig, "return",
                   Str(stringifyGlobMultiPattern(parseGlobMultiPattern(ret.a1.v))), NoResult)
    /\ UNCHANGED <<heap, created, appId, rules, dynamicHandlerCount, staticRerouteCount,
                   staticLockCount, regOrder, nRegs>>

\* The same on the key the canonicalization returned.
Recanonicalize ==
    /\ ret.op = "canonicalize"
    /\ ret' = Call("recanonicalize", 0, ret.val, Undefined, NoConfig, "return",
                   Str(stringifyGlobMultiPattern(parseGlobMultiPattern(ret.val.v))), NoResult)
    /\ UNCHANGED <<heap, created, appId, rules, dynamicHandlerCount, staticRerouteCount,
                   staticLockCount, regOrder, nRegs>>

NextCanon == Canonicalize \/ Recanonicalize

SpecCanon == InitCanon /\ [][NextCanon]_vars

\* ------------------------------------------- construction and registration
\* A provider constructed with a ruleset next to one constructed without
\* rules on which the caller registers the ruleset's entries one by one.
\* The caller of the second keeps the ruleset under the appId it passes.
S_sep1 == <<" ", "|", " ", "1">>
\* {" | a": f1, "a": {action: "", fallbackIndex: false}}: one canonical key twice.
CfgOverwrite == WithRules(Ruleset(<< <<Str(S_sepA), Fn("f1")>>, <<Str(S_a), Obj(2)>> >>))
\* {"b": {fallbackIndex: true}, " | 1": "b/"}: the later key is an array index.
CfgIndexLater == WithRules(Ruleset(<< <<Str(S_b), Obj(1)>>, <<Str(S_sep1), Str(S_bSlash)>> >>))
EquivApps == {S_a, S_b, S_c, S_1, S_aSlash}
EquivConfig(id) ==
    CASE id = S_a -> CfgLockUnlock
      [] id = S_b -> CfgOverwrite
      [] id = S_c -> CfgIndexLater
      [] id = S_1 -> CfgBadRule
      [] OTHER -> CfgFooBar
EquivEntries(id) == ConfigRules(EquivConfig(id)).entries
EquivKeys == {Str(S_a), Str(S_1)}
EquivPaths == {Str(S_a), Str(S_b)}

\* The next entry of the ruleset, in its enumeration order, registered on
\* the provider constructed without rules.
RegisterNext ==
    /\ created[2] = "ok"
    /\ nRegs < Len(EquivEntries(appId[2].v))
    /\ LET entry == EquivEntries(appId[2].v)[nRegs + 1]
       IN  RegisterRule(2, entry[1], entry[2])

NextEquiv ==
    \/ \E id \in EquivApps : New(1, Str(id), EquivConfig(id))
    \/ \E id \in EquivApps : New(2, Str(id), NoConfig)
    \/ RegisterNext
    \/ \E i \in Insts, globs \in EquivKeys : GetRule(i, globs)
    \/ \E i \in Insts, resourcePath \in EquivPaths : GetRulesForCall(i, resourcePath)

SpecEquiv == Init /\ [][NextEquiv]_vars

\* =============================================================== claims

\* The rule object stored at the n-th own property of provider i's _rules.
RuleAt(i, n) == heap[rules[i][n][2]]
StoredAt(i) == 1..Len(rules[i])

\* The keys ever registered with provider i, and when each was last.
RegisteredKeys(i) == {regOrder[i][n][1] : n \in 1..Len(regOrder[i])}
RegIndex(i, key) == CHOOSE n \in 1..Len(regOrder[i]) : regOrder[i][n][1] = key

\* A pattern sequence applies to a path, said without the fold: some pattern
\* without a leading "!" matches it, and no pattern after that one with a
\* leading "!" matches it with the "!" taken off.
Negated(pattern) == pattern # <<>> /\ Head(pattern) = "!"
AppliesTo(patterns, path) ==
    \E n \in 1..Len(patterns) :
        /\ ~Negated(patterns[n])
        /\ Minimatch(path, patterns[n])
        /\ \A m \in (n + 1)..Len(patterns) :
               Negated(patterns[m]) => ~Minimatch(path, Tail(patterns[m]))

\* The last call was getRulesFor with a string, and it returned.
Resolved == ret.op = "getRulesFor" /\ isString(ret.a1) /\ ret.out = "return"

\* The stored rules of provider i that apply to the path of the last call.
ApplyingAt(i) == {n \in StoredAt(i) : AppliesTo(RuleAt(i, n).p, PathNormalize(ret.a1.v))}

\* C1: the action getRulesFor(path) returns is the action of the matching
\* stored rule registered most recently among the matching rules that have
\* an action; it is absent when no matching rule has one.
C1_LatestRegisteredActionWins ==
    Resolved =>
        LET i == ret.inst
            having == {n \in ApplyingAt(i) : RuleAt(i, n).action.t # "absent"}
        IN  IF having = {} THEN isUndefined(ret.res.action)
            ELSE LET latest == CHOOSE n \in having : \A m \in having :
                                   RegIndex(i, rules[i][m][1]) <= RegIndex(i, rules[i][n][1])
                 IN  ret.res.action = RuleAt(i, latest).action

\* The numbers of provider i's stored rules whose action has the type tag,
\* and whose action is false.
CountTagged(i, tag) == Cardinality({n \in StoredAt(i) : RuleAt(i, n).action.t = tag})
CountLocks(i) == Cardinality({n \in StoredAt(i) : RuleAt(i, n).action = Bool(FALSE)})

\* C2: in every reachable state the three counters equal the numbers of
\* stored rules whose action is a callable, a string, and false.
C2_CountersCountStoredRules ==
    \A i \in Insts :
        /\ dynamicHandlerCount[i] = CountTagged(i, "function")
        /\ staticRerouteCount[i] = CountTagged(i, "string")
        /\ staticLockCount[i] = CountLocks(i)

\* The step is a _useRule call that returned (ret' says what the step was).
RegisteredStep == ret'.op = "_useRule" /\ ret'.out = "return"

\* The action a _useRule call registers: the rule itself, or the action of
\* the plain object given.
ActionOf(h, rule) == IF isPlainObject(rule) THEN h[rule.r].action ELSE rule

CountersUnchanged(i) ==
    /\ dynamicHandlerCount'[i] = dynamicHandlerCount[i]
    /\ staticRerouteCount'[i] = staticRerouteCount[i]
    /\ staticLockCount'[i] = staticLockCount[i]

\* C3: a registration under a key whose canonical form is already stored
\* puts the new rule at that key and changes none of the three counters.
C3_OverwriteDoesNotRecount ==
    [][ \A i \in Insts :
          (RegisteredStep /\ ret'.inst = i /\ HasOwn(rules[i], ret'.val.v)) =>
              /\ GetProperty(rules'[i], ret'.val.v) =
                     (IF isPlainObject(ret'.a2) THEN ret'.a2 ELSE Obj(Len(heap')))
              /\ heap'[GetProperty(rules'[i], ret'.val.v).r].action = ActionOf(heap, ret'.a2)
              /\ CountersUnchanged(i)
      ]_vars

\* C4: one registration raises the counter of its action's kind by exactly
\* one (callable: dynamicHandlerCount, string: staticRerouteCount, false:
\* staticLockCount) and leaves the other counters, and for true or no
\* action all three counters, as they were.
C4_RegistrationCountsByKind ==
    [][ \A i \in Insts :
          (RegisteredStep /\ ret'.inst = i) =>
              LET action == ActionOf(heap, ret'.a2)
                  d == dynamicHandlerCount'[i] - dynamicHandlerCount[i]
                  r == staticRerouteCount'[i] - staticRerouteCount[i]
                  l == staticLockCount'[i] - staticLockCount[i]
              IN  <<d, r, l>> =
                      IF isFunction(action) THEN <<1, 0, 0>>
                      ELSE IF isString(action) THEN <<0, 1, 0>>
                      ELSE IF action = Bool(FALSE) THEN <<0, 0, 1>>
                      ELSE <<0, 0, 0>>
      ]_vars

\* C4's case: a lock and a callable have been registered with the provider
\* and the last call registered true, which moved no counter.
C4_Witness ==
    /\ ret.op = "_useRule" /\ ret.out = "return" /\ ret.a2 = Bool(TRUE)
    /\ dynamicHandlerCount[1] = 1
    /\ staticLockCount[1] = 1
    /\ staticRerouteCount[1] = 0

\* C5: getRule(K') returns a record whose action is the action registered
\* last under the canonical key of K', whatever its kind, for every K' that
\* canonicalizes to a registered key.
C5_GetRuleReturnsRegisteredAction ==
    (ret.op = "getRule" /\ isString(ret.a1) /\ Canon(ret.a1.v) \in RegisteredKeys(ret.inst)) =>
        /\ ret.out = "return"
        /\ isPlainObject(ret.val)
        /\ heap[ret.val.r].action = regOrder[ret.inst][RegIndex(ret.inst, Canon(ret.a1.v))][2]

\* C5's case: getRule(" | a") returned the callable registered under "a"
\* after another rule had been registered under "a".
C5_Witness ==
    /\ ret.op = "getRule" /\ ret.a1 = Str(S_sepA) /\ ret.out = "return"
    /\ isPlainObject(ret.val) /\ heap[ret.val.r].action = Fn("f1")
    /\ Len(heap) > Len(CallerObjects) + 1
    /\ Len(rules[1]) = 1

\* The original reading of C6: a stored rule with several patterns applies
\* to every path that one of its patterns (without a leading "!") matches;
\* when no other stored rule applies, getRulesFor returns its action.
C6_AnyMatchingPatternApplies ==
    Resolved =>
        LET i == ret.inst
            path == PathNormalize(ret.a1.v)
        IN  \A n \in StoredAt(i) :
                LET rule == RuleAt(i, n)
                IN  ( /\ Len(rule.p) >= 2
                      /\ \E m \in 1..Len(rule.p) :
                             ~Negated(rule.p[m]) /\ Minimatch(path, rule.p[m])
                      /\ ApplyingAt(i) \subseteq {n} ) =>
                        /\ ret.res.action = rule.action
                        /\ ret.res.ps = <<rules[i][n][1]>>

\* C6 (amended): a stored rule with several patterns applies to every path
\* that one of its patterns without a leading "!" matches and that no later
\* pattern of it with a leading "!" excludes; when it is the only stored
\* rule that applies, getRulesFor returns its action and names its key.
C6_MultiGlobRuleApplies ==
    Resolved =>
        LET i == ret.inst
            path == PathNormalize(ret.a1.v)
        IN  \A n \in StoredAt(i) :
                LET rule == RuleAt(i, n)
                IN  ( /\ Len(rule.p) >= 2
                      /\ AppliesTo(rule.p, path)
                      /\ ApplyingAt(i) = {n} ) =>
                        /\ ret.res.action = rule.action
                        /\ ret.res.ps = <<rules[i][n][1]>>

\* C6's case: with "a | b" -> false and "a" -> true stored, getRulesFor("b/")
\* matched the second pattern of "a | b" alone and returned false.
C6_Witness ==
    /\ Resolved /\ ret.a1 = Str(S_bSlash)
    /\ Len(rules[1]) = 2
    /\ rules[1][1][1] = S_A_B /\ RuleAt(1, 1).p = <<S_a, S_b>>
    /\ RuleAt(1, 1).action = Bool(FALSE) /\ RuleAt(1, 2).action = Bool(TRUE)
    /\ ret.res.action = Bool(FALSE)
    /\ ret.res.ps = <<S_A_B>>

\* The original reading of C7: new throws a TypeError exactly when appId is
\* no string, whatever the config.
C7_OnlyAppIdDecides ==
    ret.op = "new" => (ret.out = "TypeError" <=> ~isString(ret.a1))

\* A ruleset new can take: a falsy value, or a plain object whose keys are
\* strings and whose rules are of a supported kind.
SupportedEntry(h, e) == isString(e[1]) /\ (Wrappable(e[2]) \/ SupportedObject(h, e[2]))
UsableRuleset(h, ruleset) ==
    \/ Falsy(ruleset.val)
    \/ /\ isPlainObject(ruleset.val)
       /\ \A n \in 1..Len(ruleset.entries) : SupportedEntry(h, ruleset.entries[n])

\* C7 (amended): new throws a TypeError when appId is no string; with a
\* string appId it returns a provider when the config is absent, has no
\* rules, or has rules that are falsy or a plain object of supported rules,
\* and throws a TypeError for any other rules.
C7_ConstructionOutcome ==
    ret.op = "new" =>
        /\ ret.out = "TypeError" <=>
               (~isString(ret.a1) \/ ~UsableRuleset(heap, ConfigRules(ret.config)))
        /\ ret.out = "return" =>
               (created[ret.inst] = "ok" /\ appId[ret.inst] = ret.a1)
        /\ ret.out = "TypeError" => (created[ret.inst] = "TypeError" /\ rules[ret.inst] = <<>>)

\* C7's case: new with a string appId and a config that holds rules returned.
C7_Witness ==
    /\ ret.op = "new" /\ isString(ret.a1) /\ ret.config = CfgLockUnlock
    /\ ret.out = "return" /\ created[1] = "ok" /\ Len(rules[1]) = 2

\* C8: getRulesFor with a string never throws, and when no stored rule
\* applies to the path it returns no action and no applied patterns.
C8_ResolutionNeverThrows ==
    (ret.op = "getRulesFor" /\ isString(ret.a1)) =>
        /\ ret.out = "return"
        /\ ret.res.target = PathNormalize(ret.a1.v)
        /\ ApplyingAt(ret.inst) = {} =>
               (ret.res.action = Absent /\ ret.res.ps = <<>>)

\* C8's case: getRulesFor("c") with rules stored, none of which applies.
C8_Witness ==
    /\ Resolved /\ ret.a1 = Str(S_c)
    /\ Len(rules[1]) >= 2
    /\ \E n \in StoredAt(1) : RuleAt(1, n).action # Absent
    /\ ret.res.action = Absent /\ ret.res.ps = <<>>

\* C9: getRule(K) returns undefined for every string K whose canonical form
\* was never registered, and a rule record for every registered one.
C9_NotFoundIsUndefined ==
    (ret.op = "getRule" /\ isString(ret.a1)) =>
        /\ ret.out = "return"
        /\ IF Canon(ret.a1.v) \in RegisteredKeys(ret.inst)
           THEN isPlainObject(ret.val)
           ELSE ret.val = Undefined

NoInitialRules(config) ==
    Falsy(ConfigRules(config).val) \/ ConfigRules(config).entries = <<>>

CanonicalKey(key) ==
    /\ key # <<>>
    /\ \A n \in 1..Len(SplitSep(key)) : SplitSep(key)[n] # <<>>

\* C11: in every reachable state every key of _rules is a canonical,
\* non-empty multi-glob key and every stored rule has a non-empty $p.
C11_KeysCanonicalAndPatternsNonEmpty ==
    \A i \in Insts : \A n \in StoredAt(i) :
        /\ CanonicalKey(rules[i][n][1])
        /\ RuleAt(i, n).hasP
        /\ RuleAt(i, n).p # <<>>

\* C12: the $ps getRulesFor returns holds exactly the keys of the stored
\* rules that apply to the normalized path, each once, in the order in which
\* those rules were registered; $target is the normalized path and the
\* result has no $p.
C12_AppliedPatternsInRegistrationOrder ==
    Resolved =>
        LET i == ret.inst
            ps == ret.res.ps
        IN  /\ {ps[n] : n \in 1..Len(ps)} = {rules[i][n][1] : n \in ApplyingAt(i)}
            /\ Len(ps) = Cardinality(ApplyingAt(i))
            /\ \A a, b \in 1..Len(ps) : a < b => RegIndex(i, ps[a]) < RegIndex(i, ps[b])
            /\ ret.res.target = PathNormalize(ret.a1.v)
            /\ ~ret.res.hasP

\* C13: in the record getRulesFor returns, fallbackIndex has the value of
\* the applying stored rule registered last among those that define it, and
\* is absent when no applying rule defines it.
C13_FieldsInheritFromLatestRegistered ==
    Resolved =>
        LET i == ret.inst
            having == {n \in ApplyingAt(i) : RuleAt(i, n).fallbackIndex.t # "absent"}
        IN  IF having = {} THEN ret.res.fallbackIndex = Absent
            ELSE LET latest == CHOOSE n \in having : \A m \in having :
                                   RegIndex(i, rules[i][m][1]) <= RegIndex(i, rules[i][n][1])
                 IN  ret.res.fallbackIndex = RuleAt(i, latest).fallbackIndex

\* The step is a query: getRulesFor, getRule or handleResourcePath.
QueryStep == ret'.op \in {"getRulesFor", "getRule", "handleResourcePath"}

\* C14: a query leaves _rules, every rule object and the three counters as
\* they were, and a query that repeats the query before it, with no
\* registration in between, has the same outcome.
C14_QueriesOnlyRead ==
    [][ QueryStep =>
          /\ heap' = heap
          /\ rules' = rules
          /\ \A i \in Insts : CountersUnchanged(i)
          /\ (ret.op = ret'.op /\ ret.inst = ret'.inst /\ ret.a1 = ret'.a1) => ret' = ret
      ]_vars

\* C14's case: getRulesFor("a/") returned with two rules applied, and the
\* two stored rules still have their $p and the counters their values.
C14_Witness ==
    /\ Resolved /\ ret.a1 = Str(S_aSlash)
    /\ Len(ret.res.ps) = 2 /\ Len(rules[1]) = 2
    /\ \A n \in StoredAt(1) : RuleAt(1, n).hasP /\ RuleAt(1, n).p # <<>>
    /\ staticLockCount[1] = 1

\* A call that breaks a type contract: _useRule with a key that is no string
\* or with a rule that is neither a callable, a string, a boolean nor a plain
\* object whose action is absent, a callable, a string or a boolean; getRule,
\* getRulesFor or handleResourcePath with what is no string.
SupportedTags == {"function", "string", "boolean"}
BreaksContract(call, h) ==
    \/ /\ call.op = "_useRule"
       /\ \/ call.a1.t # "string"
          \/ ~ \/ call.a2.t \in SupportedTags
               \/ /\ call.a2.t = "object"
                  /\ h[call.a2.r].action.t \in SupportedTags \cup {"absent", "undefined"}
    \/ /\ call.op \in {"getRule", "getRulesFor", "handleResourcePath"}
       /\ call.a1.t # "string"

\* C15: a call that breaks a type contract throws a TypeError and leaves the
\* rule objects, _rules and the counters as they were.
C15_ContractViolationsThrow ==
    [][ BreaksContract(ret', heap) =>
          /\ ret'.out = "TypeError"
          /\ heap' = heap
          /\ rules' = rules
          /\ regOrder' = regOrder
          /\ \A i \in Insts : CountersUnchanged(i)
      ]_vars

\* C15's case: _useRule("a", {action: 42}) threw with rules stored, and the
\* object given has no $p.
C15_Witness ==
    /\ ret.op = "_useRule" /\ ret.a1 = Str(S_a) /\ ret.a2 = Obj(3)
    /\ ret.out = "TypeError"
    /\ ~heap[3].hasP
    /\ Len(rules[1]) = 2 /\ staticLockCount[1] = 1

\* A key with no empty segment: no piece between its separators is empty.
NoEmptySegment(key) == \A n \in 1..Len(SplitSep(key)) : SplitSep(key)[n] # <<>>

\* C16: stringify(parse(k)) = k for every key k with no empty segment, and
\* canonicalizing a canonical form gives that canonical form again.
C16_CanonicalizationIdempotent ==
    /\ (ret.op = "canonicalize" /\ NoEmptySegment(ret.a1.v)) => ret.val = ret.a1
    /\ ret.op = "recanonicalize" => ret.val = ret.a1

\* C16's case: " | | " was canonicalized to "| ", a key that starts with
\* what looks like a piece of a separator, and that was canonicalized again.
C16_Witness ==
    /\ ret.op = "recanonicalize"
    /\ ret.a1 = Str(<<"|", " ">>)
    /\ ret.val = Str(<<"|", " ">>)

\* C17: after every step each stored rule's $p is the parse of the key it
\* is stored under, and a registration under one key leaves the rules stored
\* under the other keys as they were, also when the caller registers the
\* same rule object under two keys.
C17_PatternsFollowKeys ==
    [][ /\ \A i \in Insts : \A n \in 1..Len(rules'[i]) :
              heap'[rules'[i][n][2]].p = parseGlobMultiPattern(rules'[i][n][1])
        /\ RegisteredStep =>
              \A i \in Insts : \A n \in StoredAt(i) :
                  rules[i][n][1] # ret'.val.v =>
                      \E m \in 1..Len(rules'[i]) :
                          /\ rules'[i][m][1] = rules[i][n][1]
                          /\ heap'[rules'[i][m][2]] = RuleAt(i, n)
      ]_vars

\* C18: no step removes a rule or lowers a counter: the keys of _rules stay,
\* a key for which getRule returns a rule object still has one after the
\* step, and each of the three counters is at least what it was.
C18_RulesStayAndCountersGrow ==
    [][ \A i \in Insts :
          /\ OwnKeys(rules[i]) \subseteq OwnKeys(rules'[i])
          /\ \A globs \in LookupKeys :
                (isString(globs) /\ isPlainObject(GetProperty(rules[i], Canon(globs.v))))
                    => isPlainObject(GetProperty(rules'[i], Canon(globs.v)))
          /\ dynamicHandlerCount'[i] >= dynamicHandlerCount[i]
          /\ staticRerouteCount'[i] >= staticRerouteCount[i]
          /\ staticLockCount'[i] >= staticLockCount[i]
      ]_vars

\* C18's case: a provider constructed with two rules took two more
\* registrations, one of them under a new key, and getRule(" | a") still
\* returns a rule.
C18_Witness ==
    /\ created[1] = "ok" /\ nRegs = 2
    /\ Len(rules[1]) = 3
    /\ {S_a, S_A_B} \subseteq OwnKeys(rules[1])
    /\ staticLockCount[1] >= 1
    /\ ret.op = "getRule" /\ ret.inst = 1 /\ ret.a1 = Str(S_sepA) /\ isPlainObject(ret.val)

\* Every entry of the ruleset of provider 1 has been registered on provider 2.
RegisteredOneByOne ==
    /\ created = <<"ok", "ok">>
    /\ appId[1] = appId[2]
    /\ nRegs = Len(EquivEntries(appId[2].v))

\* C19: a provider constructed with a ruleset and a provider constructed
\* without rules on which each entry of that ruleset was registered in the
\* ruleset's enumeration order have the same keys in the same order, the
\* same rule under each key and the same three counters.
C19_ConstructionEqualsRegistering ==
    RegisteredOneByOne =>
        /\ Len(rules[1]) = Len(rules[2])
        /\ \A n \in StoredAt(1) :
              /\ rules[1][n][1] = rules[2][n][1]
              /\ RuleAt(1, n) = RuleAt(2, n)
        /\ dynamicHandlerCount[1] = dynamicHandlerCount[2]
        /\ staticRerouteCount[1] = staticRerouteCount[2]
        /\ staticLockCount[1] = staticLockCount[2]

\* C19's case: the ruleset {"b": {...}, " | 1": "b/"} given to the
\* constructor of one provider and registered entry by entry on the other;
\* both have the keys "1", "b" in this order and one reroute.
C19_Witness ==
    /\ RegisteredOneByOne
    /\ appId[2] = Str(S_c) /\ nRegs = 2
    /\ rules[2][1][1] = S_1 /\ rules[2][2][1] = S_b
    /\ rules[1][1][1] = S_1
    /\ staticRerouteCount[2] = 1

=============================================================================
